---- MODULE Spec2Model ----
(***************************************************************************)
(* State-machine model of the conversation-practice client                 *)
(* (src/frontend/js/api.js, class Appen): the recording-stop handler, the  *)
(* two-phase transcribe -> respond pipeline (processNewMessage), scenario  *)
(* generation with its retry timers (generateScenario), the message log    *)
(* state.messages and the displayed conversation (chatContainer).          *)
(*                                                                         *)
(* JavaScript is single-threaded: every action below is one run of a       *)
(* handler up to its next await (or to its end).  Network calls in flight  *)
(* are the suspended continuations kept in pipelines / scenarioCalls; the  *)
(* pending setTimeout callbacks are kept in timers.                        *)
(***************************************************************************)
EXTENDS Naturals, Sequences, FiniteSets, TLC

\* ------------------------------------------------------------ constants
\* audioBlob.size < 1000 is "too short"
MinBlobSize == 1000
\* this.maxRetries = 3
maxRetries == 3
\* setTimeout(..., 1000 * (retryCount + 1))
RetryBaseMs == 1000

\* ------------------------------------------------------------ bounds
\* recordings the user makes in one run of the model
MaxRecordings == 2
\* scenario requests made by the user (or by init) in one run of the model
MaxScenarioRequests == 2

\* ------------------------------------------------------------ inputs
\* sizes of the finished recording (bytes)
BlobSizes == {600, 999, 1000}
\* bodies the transcribe endpoint can return on success; the last one has
\* no transcription field (userText is undefined)
TranscribeResponses ==
    { [transcription |-> "hej"], [transcription |-> ""],
      [transcription |-> "  "], [detail |-> "none"] }
\* bodies the respond endpoint can return on success
AiResponses == { [response |-> "svar", audioUrl |-> "/audio/1.mp3"] }
\* scenario texts the scenario endpoint can return on success
ScenarioTexts == { "cafe", "station" }
\* what the user may have typed into the custom-scenario field
SituationInputs == { "", "  ", " ab", "abc " }
\* the levels the user selects
Levels == { "A1", "B1" }
\* the level the constructor sets
DefaultLevel == "A2"
\* Utils.debounce(this.saveSession.bind(this), 1000)
DebounceMs == 1000
\* the step of time in the session specification: half the debounce wait
TickMs == DebounceMs \div 2
\* 24 * 60 * 60 * 1000
FreshnessMs == 24 * 60 * 60 * 1000
HourMs == 60 * 60 * 1000
\* the age, at startup, of the record found in the storage
SavedAges == { 23 * HourMs, FreshnessMs - 1, FreshnessMs, 25 * HourMs }
\* the level of the record found in the storage ("": the record has none)
SavedLevels == { "", "B1" }
\* what the storage may hold at startup: nothing, or a record; the record
\* is kept with its age, Date.now() - timestamp
SavedStates ==
    { {} } \cup { { [ currentLevel |-> l, age |-> a ] } :
                     l \in SavedLevels, a \in SavedAges }
\* ages past this are not told apart
AgeCap == 26 * HourMs
\* selectLevel calls in one run of the model
MaxLevelChanges == 3
\* if (this.state.audioPreloadCache.size > 10)
CacheCapacity == 10
\* a missing URL (!url)
NoUrl == 0
\* distinct URLs, and preloadAudio calls, in one run of the model
MaxUrls == 12
MaxPreloads == 12
\* presses of the record button in one run of the model
MaxPresses == 3
\* requests kept on the wire in one run of the model
MaxWire == 2
\* the access tokens a login may return
Tokens == { "t1", "t2" }
\* handleSearch calls in one run of the model
MaxSearches == 3
\* showExampleDialog calls in one run of the model
MaxExampleClicks == 3
\* a request body without a situation key
NoSituation == "<undefined>"
\* input.length < 3
MinSituationLength == 3

\* ------------------------------------------------------------ texts
ProcessingText == "Processing..."
ThinkingText == "..."
LoadingSkeleton == "<div class=skeleton>"
ScenarioFailedText == "Failed to generate scenario. Please try again."
NoObject == 0

VARIABLES
    isLoading,              \* state.isLoading, the busy flag
    isRecording,            \* state.isRecording
    currentScenario,        \* state.currentScenario
    messages,               \* state.messages, the message log
    currentAiAudioElement,  \* state.currentAiAudioElement (NoObject = null)
    chatContainer,          \* does elements.chatContainer exist (not null)
    chat,                   \* children of chatContainer, in document order
    scenarioText,           \* content of elements.scenarioText
    pipelines,              \* processNewMessage runs suspended at an await
    scenarioCalls,          \* generateScenario runs suspended at their await
    timers,                 \* pending retry callbacks of setTimeout
    nextId,                 \* identity of the next object created
    recordings,             \* recordings started so far
    requests,               \* scenario requests made so far
    rejected,               \* recordings turned away at the pipeline guard
    last,                   \* what the handler that ran last did
    audioFetches,           \* fetch(audioUrl) calls of updateMessage in flight
    audioSrc,               \* Audio elements whose src has been assigned
    handles,                \* the Audio element made for each recording
    customInput,            \* elements.customScenarioInput.value
    customModal,            \* is the custom-scenario modal shown
    currentLevel,           \* state.currentLevel
    storage,                \* the record stored under 'AppenState', if any
    saveTimer,              \* the pending call of debouncedSaveSession, if any
    restored,               \* has restoreSession run
    sessionLog,             \* the levels selected since the last write, the
                            \* writes and calls so far, and the time since
                            \* the last call (counted up to DebounceMs)
    audioPreloadCache,      \* state.audioPreloadCache, in insertion order
    loaded,                 \* preloaded Audio elements that still hold a source
    preloads,               \* preloadAudio calls so far
    seen,                   \* the URLs preloaded so far are 1 .. seen
    tornDown,               \* has cleanup run
    recorder,               \* this.recorder: "none" before initRecorder, then
                            \* how far its init() has come
    capture,                \* the capture state of the recorder
    pressed,                \* is the record button held
    presses,                \* presses of the record button so far
    authToken,              \* state.authToken, if there is one
    wire,                   \* the requests handed to fetch, in order
    searches,               \* api.searchWord calls of handleSearch in flight
    searchResults,          \* what the searchResults container shows, and
                            \* the query it was rendered for
    queries,                \* handleSearch calls so far
    exampleDisabled,        \* button.disabled of the example-dialogue button
    exampleCalls,           \* api.getExampleDialogue calls in flight
    exampleClicks           \* showExampleDialog calls so far

\* playback of the partner's audio
audioVars == << audioFetches, audioSrc, handles >>

\* the custom-scenario dialog
customVars == << customInput, customModal >>

\* the level and its persistence
sessionVars == << currentLevel, storage, saveTimer, restored, sessionLog >>

\* the preload cache and the teardown
cacheVars == << audioPreloadCache, loaded, preloads, seen, tornDown >>

\* the recorder and the gestures on the record button
recorderVars == << recorder, capture, pressed, presses >>

\* the credential and the requests sent
authVars == << authToken, wire >>

\* the dictionary search and the example dialogue
lookupVars == << searches, searchResults, queries, exampleDisabled,
                exampleCalls, exampleClicks >>

vars == << isLoading, isRecording, currentScenario, messages,
           currentAiAudioElement, chatContainer, chat, scenarioText,
           pipelines, scenarioCalls, timers, nextId, recordings, requests,
           rejected, last, audioVars, customVars, sessionVars, cacheVars,
           recorderVars, authVars, lookupVars >>

\* ------------------------------------------------------------ helpers
\* String.prototype.trim, on the leading side
RECURSIVE TrimLeft(_)
TrimLeft(s) ==
    IF Len(s) > 0 /\ SubSeq(s, 1, 1) = " "
    THEN TrimLeft(SubSeq(s, 2, Len(s)))
    ELSE s

\* String.prototype.trim, on the trailing side
RECURSIVE TrimRight(_)
TrimRight(s) ==
    IF Len(s) > 0 /\ SubSeq(s, Len(s), Len(s)) = " "
    THEN TrimRight(SubSeq(s, 1, Len(s) - 1))
    ELSE s

Trim(s) == TrimRight(TrimLeft(s))

\* mutant of IsBlank: only the empty string counts as blank
IsBlankNoTrim(resp) ==
    \/ "transcription" \notin DOMAIN resp
    \/ resp.transcription = ""

\* !userText || !userText.trim()
IsBlank(resp) ==
    \/ "transcription" \notin DOMAIN resp
    \/ resp.transcription = ""
    \/ Trim(resp.transcription) = ""

\* mutant of TooShort: a recording of exactly the threshold is refused too
TooShortInclusive(size) == size <= MinBlobSize

\* audioBlob.size < 1000
TooShort(size) == size < MinBlobSize

\* mutant of PipelineBusy: the guard of processNewMessage is missing
PipelineBusyNoGuard == FALSE

\* if (this.state.isLoading) return;   (processNewMessage)
PipelineBusy == isLoading

\* mutant of ShouldRetry: only the first failure is retried
ShouldRetryOnce(retryCount) == retryCount < 1

\* retryCount < this.maxRetries
ShouldRetry(retryCount) == retryCount < maxRetries

\* mutant of RetryDelay: a constant delay
RetryDelayFlat(retryCount) == RetryBaseMs

\* 1000 * (retryCount + 1)
RetryDelay(retryCount) == RetryBaseMs * (retryCount + 1)

\* the message element with identity id removed from the container
\* (element.remove(); a detached element is left as it is)
RemoveElement(els, id) == SelectSeq(els, LAMBDA e : e.id # id)

\* updateMessage(el, text) followed by el.classList.remove('loading')
UpdateElement(els, id, text) ==
    [ i \in DOMAIN els |->
        IF els[i].id = id
        THEN [ els[i] EXCEPT !.text = text, !.loading = FALSE ]
        ELSE els[i] ]

\* mutant of ScenarioBusy: the guard of generateScenario is missing
ScenarioBusyNoGuard == FALSE

\* if (this.state.isLoading) return;   (generateScenario)
ScenarioBusy == isLoading

\* mutant of ClearedLog: the history is kept
KeptLog(log) == log

\* clearChatHistory: this.state.messages = []; chatContainer.innerHTML = ''
ClearedLog(log) == << >>

\* the sequence s without its i-th element
RemoveAt(s, i) == SubSeq(s, 1, i - 1) \o SubSeq(s, i + 1, Len(s))

\* ------------------------------------------------------------ initial state
\* the state after the constructor and cacheElements
Constructed ==
    /\ isLoading = FALSE
    /\ isRecording = FALSE
    /\ currentScenario = ""
    /\ messages = << >>
    /\ currentAiAudioElement = NoObject
    /\ chatContainer \in BOOLEAN
    /\ chat = << >>
    /\ scenarioText = ""
    /\ pipelines = {}
    /\ scenarioCalls = {}
    /\ timers = << >>
    /\ nextId = 1
    /\ recordings = 0
    /\ requests = 0
    /\ rejected = {}
    /\ last = [ op |-> "init" ]
    /\ audioFetches = {}
    /\ audioSrc = {}
    /\ handles = {}
    /\ customInput = ""
    /\ customModal = FALSE
    /\ currentLevel = DefaultLevel
    /\ saveTimer = << >>
    /\ restored = FALSE
    /\ sessionLog = [ burst |-> << >>, writes |-> 0, calls |-> 0,
                      sinceCall |-> DebounceMs ]
    /\ audioPreloadCache = << >>
    /\ loaded = {}
    /\ preloads = 0
    /\ seen = 0
    /\ tornDown = FALSE
    /\ recorder = "none"
    /\ capture = "idle"
    /\ pressed = FALSE
    /\ presses = 0
    /\ authToken = << >>
    /\ wire = << >>
    /\ searches = {}
    /\ searchResults = [ query |-> 0, kind |-> "none" ]
    /\ queries = 0
    /\ exampleDisabled = FALSE
    /\ exampleCalls = 0
    /\ exampleClicks = 0

\* the storage is empty: a first visit
Init == Constructed /\ storage = {}

\* the storage holds whatever an earlier visit left
SessionInit == Constructed /\ storage \in SavedStates

\* ------------------------------------------------------------ message log
\* mutant of PushMessage: the entry is put in front of the log
PushMessageFront(log, role, text) ==
    << [ role |-> role, content |-> text ] >> \o log

\* addMessage: this.state.messages.push(message)
PushMessage(log, role, text) == Append(log, [ role |-> role, content |-> text ])

\* addMessage: chatContainer.appendChild(messageElement); without a
\* container the element is created but never attached
AppendElement(els, id, role, text) ==
    IF chatContainer
    THEN Append(els, [ id |-> id, role |-> role, text |-> text,
                       loading |-> TRUE ])
    ELSE els

\* catch block of processNewMessage: the user element is removed only
\* while it still carries the loading class
CatchRemove(els, p) ==
    SelectSeq(els, LAMBDA e : ~(e.id = p.userEl /\ e.loading))

\* ------------------------------------------------------------ recording
\* handleRecordingStart (the recorder's onStart callback)
RecordingStarted ==
    /\ ~isRecording
    /\ recordings < MaxRecordings
    /\ isRecording' = TRUE
    /\ recordings' = recordings + 1
    /\ last' = [ op |-> "recordingStart" ]
    /\ UNCHANGED << isLoading, currentScenario, messages,
                    currentAiAudioElement, chatContainer, chat, scenarioText,
                    pipelines, scenarioCalls, timers, nextId, requests,
                    rejected >>
    /\ UNCHANGED audioVars
    /\ UNCHANGED customVars
    /\ UNCHANGED sessionVars
    /\ UNCHANGED cacheVars

\* the callback, whatever the recorder did before it
HandleRecordingStart == RecordingStarted /\ UNCHANGED << recorderVars, authVars, lookupVars >>

\* processNewMessage up to its first await: the guard, the busy flag, the
\* user placeholder and the transcribe call.  audio is the Audio element
\* made by the caller, el the identity of the placeholder element.
ProcessNewMessage(blob, audio, el) ==
    IF PipelineBusy
    THEN /\ rejected' = rejected \cup { blob }
         /\ UNCHANGED << isLoading, messages, chat, pipelines >>
    ELSE /\ isLoading' = TRUE
         /\ messages' = PushMessage(messages, "user", ProcessingText)
         /\ chat' = AppendElement(chat, el, "user", ProcessingText)
         /\ rejected' = rejected
         /\ IF chatContainer
            THEN pipelines' = pipelines \cup
                    { [ blob |-> blob, audio |-> audio, userEl |-> el,
                        aiEl |-> NoObject, phase |-> "transcribe",
                        userText |-> "", pre |-> messages, preChat |-> chat,
                        scenario |-> currentScenario, history |-> << >>,
                        trace |-> << "userPlaceholder", "transcribeCall" >> ] }
            \* addMessage returned undefined: userMessageElement.classList
            \* throws outside the try block, the run ends here
            ELSE pipelines' = pipelines

\* handleRecordingStop (the recorder's onStop callback)
RecordingStopped(size) ==
    /\ isRecording
    /\ isRecording' = FALSE
    /\ IF TooShort(size)
       THEN /\ last' = [ op |-> "recordingStop", size |-> size,
                         blob |-> recordings, busy |-> isLoading,
                         handed |-> FALSE,
                         outcome |-> "tooShort",
                         toasts |-> << "Recording too short, please try again." >> ]
            /\ UNCHANGED << isLoading, messages, currentAiAudioElement, chat,
                            pipelines, nextId, rejected, handles >>
       ELSE /\ currentAiAudioElement' = nextId
            /\ handles' = handles \cup { [ blob |-> recordings, audio |-> nextId ] }
            /\ ProcessNewMessage(recordings, nextId, nextId + 1)
            /\ nextId' = nextId + 2
            /\ last' = [ op |-> "recordingStop", size |-> size,
                         blob |-> recordings, busy |-> isLoading,
                         handed |-> TRUE,
                         outcome |-> IF PipelineBusy THEN "rejected"
                                     ELSE IF chatContainer THEN "started"
                                     ELSE "placeholderFailed",
                         toasts |-> << >> ]
    /\ UNCHANGED << currentScenario, chatContainer, scenarioText,
                    scenarioCalls, timers, recordings, requests,
                    audioFetches, audioSrc >>
    /\ UNCHANGED customVars
    /\ UNCHANGED sessionVars
    /\ UNCHANGED cacheVars

\* the callback, whatever the recorder did before it
HandleRecordingStop(size) == RecordingStopped(size) /\ UNCHANGED << recorderVars, authVars, lookupVars >>

\* ------------------------------------------------------------ recorder
\* recorder.start(): a recorder that is idle begins to start the capture
RecorderStart == IF capture = "idle" THEN "starting" ELSE capture

\* recorder.stop(): a recorder that is recording finalizes the capture
RecorderStop == IF capture = "recording" THEN "finalizing" ELSE capture

\* if (this.recorder && !this.state.isRecording), for the recorder rec
MayStart(rec) == rec # "none" /\ ~isRecording

\* the rest of startMainRecording, once there is a recorder rec
StartIfIdle(op, rec, isHeld, notices) ==
    /\ capture' = (IF MayStart(rec) THEN RecorderStart ELSE capture)
    /\ last' = [ op |-> op, started |-> MayStart(rec), recorderAt |-> rec,
                 captureAt |-> capture, held |-> isHeld,
                 busy |-> isLoading, preMessages |-> messages,
                 prePipelines |-> pipelines, toasts |-> notices ]

\* mousedown or touchstart on the record button: startMainRecording up to
\* its await, or to its end when the recorder exists
PressRecord ==
    /\ ~pressed
    /\ presses < MaxPresses
    /\ pressed' = TRUE
    /\ presses' = presses + 1
    /\ IF recorder = "none"
       THEN \* initRecorder: this.recorder = new AudioRecorder(...), then
            \* await this.recorder.init()
            /\ recorder' = "initializing"
            /\ capture' = capture
            /\ last' = [ op |-> "press", started |-> FALSE,
                         recorderAt |-> recorder, captureAt |-> capture,
                         held |-> TRUE, busy |-> isLoading,
                         preMessages |-> messages,
                         prePipelines |-> pipelines,
                         toasts |-> << "Preparing recorder..." >> ]
       ELSE /\ recorder' = recorder
            /\ StartIfIdle("press", recorder, TRUE, << >>)
    /\ UNCHANGED << isLoading, isRecording, currentScenario, messages,
                    currentAiAudioElement, chatContainer, chat, scenarioText,
                    pipelines, scenarioCalls, timers, nextId, recordings,
                    requests, rejected, audioVars, customVars, sessionVars,
                    cacheVars, authVars, lookupVars >>

\* await this.recorder.init() resolves; startMainRecording goes on
InitOk ==
    /\ recorder = "initializing"
    /\ recorder' = "ready"
    /\ StartIfIdle("initDone", "ready", pressed, << >>)
    /\ UNCHANGED << isLoading, isRecording, currentScenario, messages,
                    currentAiAudioElement, chatContainer, chat, scenarioText,
                    pipelines, scenarioCalls, timers, nextId, recordings,
                    requests, rejected, audioVars, customVars, sessionVars,
                    cacheVars, authVars, lookupVars, pressed, presses >>

\* await this.recorder.init() rejects: initRecorder catches the error and
\* shows a notice; this.recorder stays set and startMainRecording goes on
InitFails ==
    /\ recorder = "initializing"
    /\ recorder' = "failed"
    /\ StartIfIdle("initFailed", "failed", pressed,
                   << "Audio recorder initialization failed." >>)
    /\ UNCHANGED << isLoading, isRecording, currentScenario, messages,
                    currentAiAudioElement, chatContainer, chat, scenarioText,
                    pipelines, scenarioCalls, timers, nextId, recordings,
                    requests, rejected, audioVars, customVars, sessionVars,
                    cacheVars, authVars, lookupVars, pressed, presses >>

\* mouseup, mouseleave, touchend or touchcancel: stopMainRecording
ReleaseRecord ==
    /\ pressed
    /\ pressed' = FALSE
    /\ capture' = (IF recorder # "none" /\ isRecording
                   THEN RecorderStop ELSE capture)
    /\ last' = [ op |-> "release",
                 stopped |-> (recorder # "none" /\ isRecording) ]
    /\ UNCHANGED << isLoading, isRecording, currentScenario, messages,
                    currentAiAudioElement, chatContainer, chat, scenarioText,
                    pipelines, scenarioCalls, timers, nextId, recordings,
                    requests, rejected, audioVars, customVars, sessionVars,
                    cacheVars, authVars, lookupVars, recorder, presses >>

\* the recorder has started the capture and calls onStart
OnStart ==
    /\ capture = "starting"
    /\ recorder = "ready"
    /\ capture' = "recording"
    /\ RecordingStarted
    /\ UNCHANGED << recorder, pressed, presses, authVars, lookupVars >>

\* the recorder has finalized the capture and calls onStop with the blob
OnStop(size) ==
    /\ capture = "finalizing"
    /\ capture' = "idle"
    /\ RecordingStopped(size)
    /\ UNCHANGED << recorder, pressed, presses, authVars, lookupVars >>

\* mutant of RecordingAfterError: the flag is left as it is
RecordingAfterErrorKept == isRecording

\* handleRecordingError: this.state.isRecording = false
RecordingAfterError == FALSE

\* the recorder gives up the capture (permission denied, device error) and
\* calls onError: handleRecordingError
OnError ==
    /\ capture \in { "starting", "recording" }
    /\ recorder \in { "ready", "failed" }
    /\ capture' = "idle"
    /\ isRecording' = RecordingAfterError
    /\ last' = [ op |-> "recordingError", wasRecording |-> isRecording,
                 busy |-> isLoading, preMessages |-> messages,
                 prePipelines |-> pipelines,
                 toasts |-> << "Recording failed." >> ]
    /\ UNCHANGED << isLoading, currentScenario, messages,
                    currentAiAudioElement, chatContainer, chat, scenarioText,
                    pipelines, scenarioCalls, timers, nextId, recordings,
                    requests, rejected, audioVars, customVars, sessionVars,
                    cacheVars, authVars, lookupVars, recorder, pressed, presses >>

\* mutant of ShouldStopOnHide: the page hides without stopping anything
ShouldStopOnHideNever == FALSE

\* if (document.hidden && this.state.isRecording)
ShouldStopOnHide == isRecording

\* visibilitychange with document.hidden: this.recorder?.stop()
VisibilityLost ==
    /\ capture' = (IF ShouldStopOnHide /\ recorder # "none"
                   THEN RecorderStop ELSE capture)
    /\ last' = [ op |-> "visibilityLost", wasActive |-> capture = "recording" ]
    /\ UNCHANGED << isLoading, isRecording, currentScenario, messages,
                    currentAiAudioElement, chatContainer, chat, scenarioText,
                    pipelines, scenarioCalls, timers, nextId, recordings,
                    requests, rejected, audioVars, customVars, sessionVars,
                    cacheVars, authVars, lookupVars, recorder, pressed, presses >>

\* ------------------------------------------------------------ API clients
\* everything of the application that the request actions leave alone
appVars == << isLoading, isRecording, currentScenario, messages,
              currentAiAudioElement, chatContainer, chat, scenarioText,
              pipelines, scenarioCalls, timers, nextId, recordings, requests,
              rejected, last, audioVars, customVars, sessionVars, cacheVars,
              recorderVars, lookupVars >>

\* this.headers of the API class of api.js
ApiHeaders == { << "Accept", "application/json" >> }

\* _getHeaders of the API class of search.js
GetHeaders(isFormData) ==
    { << "Accept", "application/json" >> }
    \cup { << "Authorization", "Bearer " \o authToken[i] >> :
              i \in DOMAIN authToken }
    \cup (IF isFormData THEN { }
          ELSE { << "Content-Type", "application/json" >> })

\* fetch(endpoint, { headers }): the requests sent once this one is out
Fetch(client, endpoint, headers) ==
    Append(wire, [ client |-> client, endpoint |-> endpoint,
                   headers |-> headers, tokenAt |-> authToken ])

\* API.post of api.js
Post(endpoint) ==
    Fetch("api.js", endpoint,
          ApiHeaders \cup { << "Content-Type", "application/json" >> })

\* API.postFormData of api.js
PostFormData(endpoint) == Fetch("api.js", endpoint, ApiHeaders)

\* _request of the API class of search.js, with the headers of _getHeaders
Request(endpoint, isFormData) ==
    Fetch("search.js", endpoint, GetHeaders(isFormData))

\* API.transcribeAudio of api.js
TranscribeAudio ==
    /\ Len(wire) < MaxWire
    /\ wire' = PostFormData("/api/transcribe")
    /\ UNCHANGED << authToken, appVars >>

\* API.getAiResponse of api.js
GetAiResponse ==
    /\ Len(wire) < MaxWire
    /\ wire' = Post("/api/get_ai_response")
    /\ UNCHANGED << authToken, appVars >>

\* API.generateScenario of api.js
GenerateScenarioRequest ==
    /\ Len(wire) < MaxWire
    /\ wire' = Post("/api/scenarios/random")
    /\ UNCHANGED << authToken, appVars >>

\* API.transcribeAudio of search.js
TranscribeAudioWithToken ==
    /\ Len(wire) < MaxWire
    /\ wire' = Request("/api/transcribe", TRUE)
    /\ UNCHANGED << authToken, appVars >>

\* API.getAiResponse of search.js
GetAiResponseWithToken ==
    /\ Len(wire) < MaxWire
    /\ wire' = Request("/api/get_ai_response", FALSE)
    /\ UNCHANGED << authToken, appVars >>

\* API.generateScenario of search.js
GenerateScenarioWithToken ==
    /\ Len(wire) < MaxWire
    /\ wire' = Request("/api/scenarios/random", FALSE)
    /\ UNCHANGED << authToken, appVars >>

\* handleAuthSubmit: setAuthState(true, data.access_token, username)
Login(token) ==
    /\ authToken' = << token >>
    /\ UNCHANGED << wire, appVars >>

\* logout: setAuthState(false, null, null)
Logout ==
    /\ authToken # << >>
    /\ authToken' = << >>
    /\ UNCHANGED << wire, appVars >>

\* ------------------------------------------------------------ lookups
\* everything but the dictionary search and the example dialogue
otherVars == << isLoading, isRecording, currentScenario, messages,
                currentAiAudioElement, chatContainer, chat, scenarioText,
                pipelines, scenarioCalls, timers, nextId, recordings,
                requests, rejected, audioVars, customVars, sessionVars,
                cacheVars, recorderVars, authVars >>

\* renderSearchResults(data), called for the query with number query
RenderSearchResults(query, kind) == [ query |-> query, kind |-> kind ]

\* handleSearch, the debounced listener of the search field: an empty query
\* clears the results, any other is sent to api.searchWord
HandleSearch(isEmpty) ==
    /\ queries < MaxSearches
    /\ queries' = queries + 1
    /\ IF isEmpty
       THEN /\ searchResults' = RenderSearchResults(queries + 1, "cleared")
            /\ UNCHANGED searches
       ELSE /\ searches' = searches \cup { queries + 1 }
            /\ UNCHANGED searchResults
    /\ last' = [ op |-> "handleSearch", query |-> queries + 1 ]
    /\ UNCHANGED << exampleDisabled, exampleCalls, exampleClicks, otherVars >>

\* await api.searchWord(query) returns: the results are rendered
SearchOk(query) ==
    /\ query \in searches
    /\ searches' = searches \ { query }
    /\ searchResults' = RenderSearchResults(query, "results")
    /\ last' = [ op |-> "searchEnd", query |-> query, newest |-> queries,
                 shown |-> searchResults ]
    /\ UNCHANGED << queries, exampleDisabled, exampleCalls, exampleClicks,
                    otherVars >>

\* await api.searchWord(query) throws: renderSearchResults(null)
SearchFail(query) ==
    /\ query \in searches
    /\ searches' = searches \ { query }
    /\ searchResults' = RenderSearchResults(query, "error")
    /\ last' = [ op |-> "searchEnd", query |-> query, newest |-> queries,
                 shown |-> searchResults ]
    /\ UNCHANGED << queries, exampleDisabled, exampleCalls, exampleClicks,
                    otherVars >>

\* mutant of ExampleBusy: the button is never taken for disabled
ExampleBusyNever == FALSE

\* if (button.disabled) return
ExampleBusy == exampleDisabled

\* finally { button.disabled = false }
ExampleFinally == FALSE

\* showExampleDialog up to its await: a disabled button ends the call, or
\* the button is disabled and api.getExampleDialogue called
ShowExampleDialog ==
    /\ exampleClicks < MaxExampleClicks
    /\ exampleClicks' = exampleClicks + 1
    /\ IF ExampleBusy
       THEN UNCHANGED << exampleDisabled, exampleCalls >>
       ELSE /\ exampleDisabled' = TRUE
            /\ exampleCalls' = exampleCalls + 1
    /\ last' = [ op |-> "showExampleDialog", disabled |-> exampleDisabled,
                 inFlight |-> exampleCalls ]
    /\ UNCHANGED << searches, searchResults, queries, otherVars >>

\* await this.api.getExampleDialogue(...) returns: the modal is shown and
\* the button enabled again
ExampleOk ==
    /\ exampleCalls > 0
    /\ exampleCalls' = exampleCalls - 1
    /\ exampleDisabled' = ExampleFinally
    /\ last' = [ op |-> "exampleEnd", outcome |-> "shown", toasts |-> << >> ]
    /\ UNCHANGED << exampleClicks, searches, searchResults, queries,
                    otherVars >>

\* await this.api.getExampleDialogue(...) throws: a notice is shown and the
\* button enabled again
ExampleFail ==
    /\ exampleCalls > 0
    /\ exampleCalls' = exampleCalls - 1
    /\ exampleDisabled' = ExampleFinally
    /\ last' = [ op |-> "exampleEnd", outcome |-> "failed",
                 toasts |-> << "Failed to load example dialogue." >> ]
    /\ UNCHANGED << exampleClicks, searches, searchResults, queries,
                    otherVars >>

\* ------------------------------------------------------------ pipeline
\* mutant of PipelineFinally: the execution starts over with another
\* transcribe call
PipelineFinallyRetry(p) ==
    /\ isLoading' = FALSE
    /\ currentAiAudioElement' = NoObject
    /\ pipelines' = (pipelines \ { p }) \cup
           { [ p EXCEPT !.phase = "transcribe",
                       !.trace = Append(@, "transcribeCall") ] }

\* finally block of processNewMessage
PipelineFinally(p) ==
    /\ isLoading' = FALSE
    /\ currentAiAudioElement' = NoObject
    /\ pipelines' = pipelines \ { p }

\* what the run that ended leaves in last
PipelineEnd(p, outcome, text, toast) ==
    [ op |-> "pipelineEnd", outcome |-> outcome, blob |-> p.blob,
      pre |-> p.pre, preChat |-> p.preChat, userEl |-> p.userEl,
      aiEl |-> p.aiEl, userText |-> text, trace |-> p.trace,
      scenario |-> p.scenario, toasts |-> << toast >> ]

\* await this.api.transcribeAudio(audioBlob) throws
TranscribeFail(p) ==
    /\ p \in pipelines /\ p.phase = "transcribe"
    /\ chat' = CatchRemove(chat, p)
    /\ PipelineFinally(p)
    /\ last' = PipelineEnd(p, "transcribeFailed", "", "Network error. Please check your connection.")
    /\ UNCHANGED << isRecording, currentScenario, messages, chatContainer,
                    scenarioText, scenarioCalls, timers, nextId, recordings,
                    requests, rejected >>
    /\ UNCHANGED audioVars
    /\ UNCHANGED customVars
    /\ UNCHANGED sessionVars
    /\ UNCHANGED cacheVars
    /\ UNCHANGED << recorderVars, authVars, lookupVars >>

\* history: this.state.messages, as the body of the respond call is built
RespondHistory(log) == log

\* await this.api.transcribeAudio(audioBlob) returns resp
TranscribeOk(p, resp) ==
    /\ p \in pipelines /\ p.phase = "transcribe"
    /\ IF IsBlank(resp)
       THEN \* userMessageElement.remove(); throw; catch; finally
            /\ chat' = CatchRemove(RemoveElement(chat, p.userEl), p)
            /\ PipelineFinally(p)
            /\ last' = PipelineEnd(p, "emptyTranscription", "", "Sorry, I didn't catch that. Please try again.")
            /\ UNCHANGED << messages, nextId >>
       ELSE \* user element updated, transcript pushed, partner placeholder
            \* added, respond call issued
            /\ messages' = PushMessage(
                   PushMessage(messages, "user", resp.transcription),
                   "ai", ThinkingText)
            /\ chat' = AppendElement(
                   UpdateElement(chat, p.userEl, resp.transcription),
                   nextId, "ai", ThinkingText)
            /\ nextId' = nextId + 1
            /\ pipelines' = (pipelines \ { p }) \cup
                   { [ p EXCEPT !.phase = "respond", !.aiEl = nextId,
                               !.userText = resp.transcription,
                               !.history = RespondHistory(PushMessage(
                                   PushMessage(messages, "user", resp.transcription),
                                   "ai", ThinkingText)),
                               !.trace = p.trace \o << "transcribeReturn",
                                   "aiPlaceholder", "respondCall" >> ] }
            /\ last' = [ op |-> "transcribed", blob |-> p.blob ]
            /\ UNCHANGED << isLoading, currentAiAudioElement >>
    /\ UNCHANGED << isRecording, currentScenario, chatContainer,
                    scenarioText, scenarioCalls, timers, recordings,
                    requests, rejected >>
    /\ UNCHANGED audioVars
    /\ UNCHANGED customVars
    /\ UNCHANGED sessionVars
    /\ UNCHANGED cacheVars
    /\ UNCHANGED << recorderVars, authVars, lookupVars >>

\* await this.api.getAiResponse(...) throws
RespondFail(p) ==
    /\ p \in pipelines /\ p.phase = "respond"
    /\ chat' = CatchRemove(chat, p)
    /\ PipelineFinally(p)
    /\ last' = PipelineEnd(p, "respondFailed", p.userText, "API Error: 500")
    /\ UNCHANGED << isRecording, currentScenario, messages, chatContainer,
                    scenarioText, scenarioCalls, timers, nextId, recordings,
                    requests, rejected >>
    /\ UNCHANGED audioVars
    /\ UNCHANGED customVars
    /\ UNCHANGED sessionVars
    /\ UNCHANGED cacheVars
    /\ UNCHANGED << recorderVars, authVars, lookupVars >>

\* mutant of ResponseAudio: the element the state holds when the response
\* arrives
ResponseAudioFromState(p) == currentAiAudioElement

\* the Audio element handed to updateMessage: the aiAudioElement parameter
\* of processNewMessage
ResponseAudio(p) == p.audio

\* updateMessage: if (audioUrl && aiAudioElement) fetch(audioUrl)
StartAudioFetch(p, resp) ==
    IF resp.audioUrl # "" /\ ResponseAudio(p) # NoObject
    THEN audioFetches \cup { [ audio |-> ResponseAudio(p), blob |-> p.blob,
                               el |-> p.aiEl, url |-> resp.audioUrl ] }
    ELSE audioFetches

\* await this.api.getAiResponse(...) returns resp
RespondOk(p, resp) ==
    /\ p \in pipelines /\ p.phase = "respond"
    /\ audioFetches' = StartAudioFetch(p, resp)
    /\ UNCHANGED << audioSrc, handles >>
    /\ chat' = UpdateElement(chat, p.aiEl, resp.response)
    /\ messages' = PushMessage(messages, "ai", resp.response)
    /\ PipelineFinally(p)
    /\ last' = [ op |-> "pipelineEnd", outcome |-> "responded",
                 blob |-> p.blob, pre |-> p.pre, preChat |-> p.preChat,
                 userEl |-> p.userEl, aiEl |-> p.aiEl,
                 userText |-> p.userText, response |-> resp.response,
                 trace |-> p.trace, scenario |-> p.scenario,
                 toasts |-> << >> ]
    /\ UNCHANGED << isRecording, currentScenario, chatContainer,
                    scenarioText, scenarioCalls, timers, nextId, recordings,
                    requests, rejected >>
    /\ UNCHANGED customVars
    /\ UNCHANGED sessionVars
    /\ UNCHANGED cacheVars
    /\ UNCHANGED << recorderVars, authVars, lookupVars >>

\* fetch(audioUrl) resolves with the audio: aiAudioElement.src = blobUrl and
\* the element is put into the message bubble
AudioFetchOk(f) ==
    /\ f \in audioFetches
    /\ audioFetches' = audioFetches \ { f }
    /\ audioSrc' = audioSrc \cup { [ audio |-> f.audio, blob |-> f.blob ] }
    /\ last' = [ op |-> "audioReady", audio |-> f.audio, blob |-> f.blob ]
    /\ UNCHANGED << isLoading, isRecording, currentScenario, messages,
                    currentAiAudioElement, chatContainer, chat, scenarioText,
                    pipelines, scenarioCalls, timers, nextId, recordings,
                    requests, rejected, handles >>
    /\ UNCHANGED customVars
    /\ UNCHANGED sessionVars
    /\ UNCHANGED cacheVars
    /\ UNCHANGED << recorderVars, authVars, lookupVars >>

\* fetch(audioUrl) fails or answers with an error status: a note is put
\* into the bubble, the element gets no source
AudioFetchFail(f) ==
    /\ f \in audioFetches
    /\ audioFetches' = audioFetches \ { f }
    /\ last' = [ op |-> "audioFailed", audio |-> f.audio, blob |-> f.blob ]
    /\ UNCHANGED << isLoading, isRecording, currentScenario, messages,
                    currentAiAudioElement, chatContainer, chat, scenarioText,
                    pipelines, scenarioCalls, timers, nextId, recordings,
                    requests, rejected, audioSrc, handles >>
    /\ UNCHANGED customVars
    /\ UNCHANGED sessionVars
    /\ UNCHANGED cacheVars
    /\ UNCHANGED << recorderVars, authVars, lookupVars >>

\* ------------------------------------------------------------ scenario
\* situation: type === 'custom' ? this.elements.customScenarioInput?.value
\*                               : undefined
SituationOption(type) == IF type = "custom" THEN customInput ELSE NoSituation

\* API.generateScenario: if (type === 'custom' && options.situation)
\* body.situation = options.situation;  an empty string is falsy
RequestSituation(type, situation) ==
    IF type = "custom" /\ situation # "" /\ situation # NoSituation
    THEN situation
    ELSE NoSituation

\* generateScenario(type, retryCount) up to its await: the guard, the busy
\* flag, the loading skeleton and the network call.  waited is the history
\* of the request: the delays its earlier attempts were scheduled with.
GenerateScenario(type, retryCount, waited) ==
    IF ScenarioBusy
    THEN UNCHANGED << isLoading, scenarioText, scenarioCalls >>
    ELSE /\ isLoading' = TRUE
         /\ scenarioText' = LoadingSkeleton
         /\ scenarioCalls' = scenarioCalls \cup
                { [ type |-> type, retryCount |-> retryCount,
                    situation |-> RequestSituation(type, SituationOption(type)),
                    waited |-> waited ] }

\* a click on the random-scenario button, or the call made by init()
RequestScenario ==
    /\ requests < MaxScenarioRequests
    /\ requests' = requests + 1
    /\ GenerateScenario("random", 0, << >>)
    /\ last' = [ op |-> "scenarioRequest", busy |-> isLoading ]
    /\ UNCHANGED << isRecording, currentScenario, messages,
                    currentAiAudioElement, chatContainer, chat, pipelines,
                    timers, nextId, recordings, rejected >>
    /\ UNCHANGED audioVars
    /\ UNCHANGED customVars
    /\ UNCHANGED sessionVars
    /\ UNCHANGED cacheVars
    /\ UNCHANGED << recorderVars, authVars, lookupVars >>

\* await this.api.generateScenario(...) returns data; clearChatHistory
ScenarioOk(c, text) ==
    /\ c \in scenarioCalls
    /\ scenarioCalls' = scenarioCalls \ { c }
    /\ currentScenario' = text
    /\ scenarioText' = text
    /\ messages' = ClearedLog(messages)
    /\ chat' = ClearedLog(chat)
    /\ isLoading' = FALSE
    /\ customModal' = (IF c.type = "custom" THEN FALSE ELSE customModal)
    /\ UNCHANGED customInput
    /\ last' = [ op |-> "scenarioEnd", outcome |-> "generated",
                 retryCount |-> c.retryCount, pre |-> messages,
                 toasts |-> << "New scenario generated!" >> ]
    /\ UNCHANGED << isRecording, currentAiAudioElement, chatContainer,
                    pipelines, timers, nextId, recordings, requests,
                    rejected >>
    /\ UNCHANGED audioVars
    /\ UNCHANGED sessionVars
    /\ UNCHANGED cacheVars
    /\ UNCHANGED << recorderVars, authVars, lookupVars >>

\* await this.api.generateScenario(...) throws: a retry is scheduled, or
\* the failure is shown; the busy flag is cleared either way
ScenarioFail(c) ==
    /\ c \in scenarioCalls
    /\ scenarioCalls' = scenarioCalls \ { c }
    /\ isLoading' = FALSE
    /\ IF ShouldRetry(c.retryCount)
       THEN /\ timers' = Append(timers,
                    [ type |-> c.type, retryCount |-> c.retryCount + 1,
                      delay |-> RetryDelay(c.retryCount),
                      remaining |-> RetryDelay(c.retryCount),
                      waited |-> Append(c.waited, RetryDelay(c.retryCount)) ])
            /\ last' = [ op |-> "scenarioEnd", outcome |-> "retryScheduled",
                         retryCount |-> c.retryCount, toasts |-> << >> ]
            /\ UNCHANGED scenarioText
       ELSE /\ scenarioText' = ScenarioFailedText
            /\ last' = [ op |-> "scenarioEnd", outcome |-> "exhausted",
                         retryCount |-> c.retryCount, waited |-> c.waited,
                         toasts |-> << "Scenario generation failed. Please check your network connection." >> ]
            /\ UNCHANGED timers
    /\ UNCHANGED << isRecording, currentScenario, messages,
                    currentAiAudioElement, chatContainer, chat, pipelines,
                    nextId, recordings, requests, rejected >>
    /\ UNCHANGED audioVars
    /\ UNCHANGED customVars
    /\ UNCHANGED sessionVars
    /\ UNCHANGED cacheVars
    /\ UNCHANGED << recorderVars, authVars, lookupVars >>

\* showCustomScenarioModal: the field is emptied and the modal shown
ShowCustomScenarioModal ==
    /\ customInput' = ""
    /\ customModal' = TRUE
    /\ last' = [ op |-> "showCustomModal" ]
    /\ UNCHANGED << isLoading, isRecording, currentScenario, messages,
                    currentAiAudioElement, chatContainer, chat, scenarioText,
                    pipelines, scenarioCalls, timers, nextId, recordings,
                    requests, rejected, audioVars >>
    /\ UNCHANGED sessionVars
    /\ UNCHANGED cacheVars
    /\ UNCHANGED << recorderVars, authVars, lookupVars >>

\* the user edits the field of the open modal
TypeSituation(text) ==
    /\ customModal
    /\ customInput # text
    /\ customInput' = text
    /\ last' = [ op |-> "typeSituation" ]
    /\ UNCHANGED << isLoading, isRecording, currentScenario, messages,
                    currentAiAudioElement, chatContainer, chat, scenarioText,
                    pipelines, scenarioCalls, timers, nextId, recordings,
                    requests, rejected, audioVars, customModal >>
    /\ UNCHANGED sessionVars
    /\ UNCHANGED cacheVars
    /\ UNCHANGED << recorderVars, authVars, lookupVars >>

\* the cancel button of the modal: closeModal('customScenarioModal')
CloseCustomModal ==
    /\ customModal
    /\ customModal' = FALSE
    /\ last' = [ op |-> "closeCustomModal" ]
    /\ UNCHANGED << isLoading, isRecording, currentScenario, messages,
                    currentAiAudioElement, chatContainer, chat, scenarioText,
                    pipelines, scenarioCalls, timers, nextId, recordings,
                    requests, rejected, audioVars, customInput >>
    /\ UNCHANGED sessionVars
    /\ UNCHANGED cacheVars
    /\ UNCHANGED << recorderVars, authVars, lookupVars >>

\* !input, for the trimmed value of the field
SituationMissing(text) == Trim(text) = ""

\* input.length < 3, for the trimmed value of the field
SituationTooShort(text) == Len(Trim(text)) < MinSituationLength

\* generateCustomScenario (the generate button of the modal, or Enter in
\* the field)
GenerateCustomScenario ==
    /\ customModal
    /\ requests < MaxScenarioRequests
    /\ requests' = requests + 1
    /\ IF SituationMissing(customInput)
       THEN /\ last' = [ op |-> "customScenario", outcome |-> "missing",
                         input |-> customInput, busy |-> isLoading,
                         toasts |-> << "Please describe a situation." >> ]
            /\ UNCHANGED << isLoading, scenarioText, scenarioCalls >>
       ELSE IF SituationTooShort(customInput)
       THEN /\ last' = [ op |-> "customScenario", outcome |-> "tooShort",
                         input |-> customInput, busy |-> isLoading,
                         toasts |-> << "Situation description is too short." >> ]
            /\ UNCHANGED << isLoading, scenarioText, scenarioCalls >>
       ELSE /\ GenerateScenario("custom", 0, << >>)
            /\ last' = [ op |-> "customScenario", outcome |-> "requested",
                         input |-> customInput, busy |-> isLoading,
                         toasts |-> << >> ]
    /\ UNCHANGED << isRecording, currentScenario, messages,
                    currentAiAudioElement, chatContainer, chat, pipelines,
                    timers, nextId, recordings, rejected, audioVars,
                    customVars >>
    /\ UNCHANGED sessionVars
    /\ UNCHANGED cacheVars
    /\ UNCHANGED << recorderVars, authVars, lookupVars >>

\* the callback of setTimeout(() => this.generateScenario(type,
\* retryCount + 1), delay) runs once its delay has passed
RetryTimerFires(i) ==
    /\ i \in DOMAIN timers
    /\ timers[i].remaining = 0
    /\ timers' = RemoveAt(timers, i)
    /\ GenerateScenario(timers[i].type, timers[i].retryCount,
                        timers[i].waited)
    /\ last' = [ op |-> "retryTimer", retryCount |-> timers[i].retryCount,
                 busy |-> isLoading ]
    /\ UNCHANGED << isRecording, currentScenario, messages,
                    currentAiAudioElement, chatContainer, chat, pipelines,
                    nextId, recordings, requests, rejected >>
    /\ UNCHANGED audioVars
    /\ UNCHANGED customVars
    /\ UNCHANGED sessionVars
    /\ UNCHANGED cacheVars
    /\ UNCHANGED << recorderVars, authVars, lookupVars >>

\* ------------------------------------------------------------ session
\* mutant of IsFresh: a record of exactly 24 hours counts as fresh
IsFreshInclusive(age) == age <= FreshnessMs

\* Date.now() - savedState.timestamp < 24 * 60 * 60 * 1000
IsFresh(age) == age < FreshnessMs

\* savedState.currentLevel || 'A2'
LevelOf(rec) == IF rec.currentLevel = "" THEN DefaultLevel ELSE rec.currentLevel

\* mutant of SavedRecord: the default level is written
SavedDefault(level) == [ currentLevel |-> DefaultLevel, age |-> 0 ]

\* saveSession: { currentLevel: this.state.currentLevel, timestamp: Date.now() }
SavedRecord(level) == [ currentLevel |-> level, age |-> 0 ]

\* a call of the debounced function: the pending call, if any, is dropped
\* and a new one is due after the full wait
DebouncedCall == << DebounceMs >>

\* mutant of SelectLevelEffect: the level is set and no write is scheduled
SelectLevelUnsaved(level) ==
    /\ currentLevel' = level
    /\ saveTimer' = saveTimer
    /\ sessionLog' = [ sessionLog EXCEPT
                         !.burst = Append(@, level),
                         !.calls = @ + 1,
                         !.sinceCall = 0 ]

\* selectLevel(level): the level is set at once, the write is debounced
SelectLevelEffect(level) ==
    /\ currentLevel' = level
    /\ saveTimer' = DebouncedCall
    /\ sessionLog' = [ sessionLog EXCEPT
                         !.burst = Append(@, level),
                         !.calls = @ + 1,
                         !.sinceCall = 0 ]

\* restoreSession, called by init() before anything else can happen
RestoreSession ==
    /\ ~restored
    /\ restored' = TRUE
    /\ IF \E rec \in storage : IsFresh(rec.age)
       THEN \E rec \in storage : SelectLevelEffect(LevelOf(rec))
       ELSE UNCHANGED << currentLevel, saveTimer, sessionLog >>
    /\ last' = [ op |-> "restoreSession", saved |-> storage ]
    /\ UNCHANGED << isLoading, isRecording, currentScenario, messages,
                    currentAiAudioElement, chatContainer, chat, scenarioText,
                    pipelines, scenarioCalls, timers, nextId, recordings,
                    requests, rejected, audioVars, customVars, storage >>
    /\ UNCHANGED cacheVars
    /\ UNCHANGED << recorderVars, authVars, lookupVars >>

\* selectLevel(level), by a click on a level button
SelectLevel(level) ==
    /\ restored
    /\ sessionLog.calls < MaxLevelChanges
    /\ SelectLevelEffect(level)
    /\ last' = [ op |-> "selectLevel", level |-> level,
                 pending |-> saveTimer,
                 toasts |-> << "Language level switched to " \o level >> ]
    /\ UNCHANGED << isLoading, isRecording, currentScenario, messages,
                    currentAiAudioElement, chatContainer, chat, scenarioText,
                    pipelines, scenarioCalls, timers, nextId, recordings,
                    requests, rejected, audioVars, customVars, storage,
                    restored >>
    /\ UNCHANGED cacheVars
    /\ UNCHANGED << recorderVars, authVars, lookupVars >>

\* the debounced call runs: saveSession writes the record
SaveTimerFires ==
    /\ saveTimer # << >>
    /\ saveTimer[1] = 0
    /\ saveTimer' = << >>
    /\ storage' = { SavedRecord(currentLevel) }
    /\ sessionLog' = [ sessionLog EXCEPT !.burst = << >>, !.writes = @ + 1 ]
    /\ last' = [ op |-> "saveSession", burst |-> sessionLog.burst,
                 sinceCall |-> sessionLog.sinceCall ]
    /\ UNCHANGED << isLoading, isRecording, currentScenario, messages,
                    currentAiAudioElement, chatContainer, chat, scenarioText,
                    pipelines, scenarioCalls, timers, nextId, recordings,
                    requests, rejected, audioVars, customVars, currentLevel,
                    restored >>
    /\ UNCHANGED cacheVars
    /\ UNCHANGED << recorderVars, authVars, lookupVars >>

\* mutant of CacheHas: no URL is found in the cache
CacheHasNever(cache, url) == FALSE

\* ------------------------------------------------------------ preload cache
\* this.state.audioPreloadCache.has(url)
CacheHas(cache, url) == \E i \in DOMAIN cache : cache[i].url = url

\* mutant of OverCapacity: the limit is checked one entry late
OverCapacityLate(size) == size > CacheCapacity + 1

\* this.state.audioPreloadCache.size > 10
OverCapacity(size) == size > CacheCapacity

\* firstKey = keys().next().value; delete(firstKey): the entry inserted
\* first goes, nothing else is done with its Audio element
DeleteFirst(cache) == Tail(cache)

\* the Audio elements of the entries of the cache
CachedAudio(cache) == { cache[i].audio : i \in DOMAIN cache }

\* preloadAudio(url)
PreloadAudio(url) ==
    /\ preloads < MaxPreloads
    /\ preloads' = preloads + 1
    /\ seen' = IF url > seen THEN url ELSE seen
    /\ IF url = NoUrl \/ CacheHas(audioPreloadCache, url)
       THEN /\ last' = [ op |-> "preloadAudio", url |-> url,
                         outcome |-> "skipped", pre |-> audioPreloadCache,
                         evicted |-> << >> ]
            /\ UNCHANGED << audioPreloadCache, loaded, nextId >>
       ELSE LET entry == [ url |-> url, audio |-> nextId ]
                inserted == Append(audioPreloadCache, entry)
            IN  /\ nextId' = nextId + 1
                /\ loaded' = loaded \cup { nextId }
                /\ audioPreloadCache' =
                       IF OverCapacity(Len(inserted))
                       THEN DeleteFirst(inserted) ELSE inserted
                /\ last' = [ op |-> "preloadAudio", url |-> url,
                             outcome |-> "inserted",
                             pre |-> audioPreloadCache,
                             evicted |-> IF OverCapacity(Len(inserted))
                                         THEN << Head(inserted) >>
                                         ELSE << >> ]
    /\ UNCHANGED << isLoading, isRecording, currentScenario, messages,
                    currentAiAudioElement, chatContainer, chat, scenarioText,
                    pipelines, scenarioCalls, timers, recordings, requests,
                    rejected, audioVars, customVars, sessionVars, tornDown >>
    /\ UNCHANGED << recorderVars, authVars, lookupVars >>

\* ------------------------------------------------------------ teardown
\* this.recorder?.cleanup?.(): the recorder lets go of the capture
RecorderCleanup == IF recorder = "none" THEN capture ELSE "idle"

\* mutant of Released: the elements keep their source
ReleasedNone(held, cache) == held

\* audioPreloadCache.forEach(audio => { audio.pause(); audio.src = ''; })
Released(held, cache) == held \ CachedAudio(cache)

\* cleanup, the beforeunload handler: the cached elements are released,
\* the cache emptied and the recorder, if there is one, told to clean up.
\* The toast timer has no part in the state modelled here; no other timer
\* is cleared.
Cleanup ==
    /\ ~tornDown
    /\ capture' = RecorderCleanup
    /\ UNCHANGED << recorder, pressed, presses, authVars, lookupVars >>
    /\ tornDown' = TRUE
    /\ loaded' = Released(loaded, audioPreloadCache)
    /\ audioPreloadCache' = << >>
    /\ last' = [ op |-> "cleanup", pre |-> audioPreloadCache,
                 held |-> loaded, timers |-> timers, saveTimer |-> saveTimer ]
    /\ UNCHANGED << isLoading, isRecording, currentScenario, messages,
                    currentAiAudioElement, chatContainer, chat, scenarioText,
                    pipelines, scenarioCalls, timers, nextId, recordings,
                    requests, rejected, audioVars, customVars, sessionVars,
                    preloads, seen >>

\* ------------------------------------------------------------ time
\* ms of time pass; a timer that is due runs before more time passes
Elapse(ms) ==
    /\ timers # << >> \/ saveTimer # << >>
    /\ \A i \in DOMAIN timers : timers[i].remaining > 0
    /\ \A i \in DOMAIN saveTimer : saveTimer[i] > 0
    /\ timers' = [ i \in DOMAIN timers |->
                     [ timers[i] EXCEPT !.remaining =
                         IF @ > ms THEN @ - ms ELSE 0 ] ]
    /\ saveTimer' = [ i \in DOMAIN saveTimer |->
                        IF saveTimer[i] > ms THEN saveTimer[i] - ms ELSE 0 ]
    /\ storage' = { [ rec EXCEPT !.age =
                        IF @ + ms > AgeCap THEN AgeCap ELSE @ + ms ] :
                    rec \in storage }
    /\ sessionLog' = [ sessionLog EXCEPT !.sinceCall =
                         IF @ + ms > DebounceMs THEN DebounceMs ELSE @ + ms ]

\* time passes by half the debounce wait
SessionTick ==
    /\ Elapse(TickMs)
    /\ UNCHANGED << isLoading, isRecording, currentScenario, messages,
                    currentAiAudioElement, chatContainer, chat, scenarioText,
                    pipelines, scenarioCalls, nextId, recordings, requests,
                    rejected, last, audioVars, customVars, currentLevel,
                    restored >>
    /\ UNCHANGED cacheVars
    /\ UNCHANGED << recorderVars, authVars, lookupVars >>

\* time passes by one base unit of the retry delays
Tick ==
    /\ Elapse(RetryBaseMs)
    /\ UNCHANGED << currentLevel, restored >>
    /\ UNCHANGED << isLoading, isRecording, currentScenario, messages,
                    currentAiAudioElement, chatContainer, chat, scenarioText,
                    pipelines, scenarioCalls, nextId, recordings, requests,
                    rejected, last >>
    /\ UNCHANGED audioVars
    /\ UNCHANGED customVars
    /\ UNCHANGED cacheVars
    /\ UNCHANGED << recorderVars, authVars, lookupVars >>

\* ------------------------------------------------------------ specification
RecordingStops == \E size \in BlobSizes : HandleRecordingStop(size)
TranscribeFails == \E p \in pipelines : TranscribeFail(p)
TranscribeReturns ==
    \E p \in pipelines : \E resp \in TranscribeResponses : TranscribeOk(p, resp)
RespondFails == \E p \in pipelines : RespondFail(p)
RespondReturns == \E p \in pipelines : \E resp \in AiResponses : RespondOk(p, resp)
ScenarioReturns == \E c \in scenarioCalls : \E text \in ScenarioTexts : ScenarioOk(c, text)
ScenarioFails == \E c \in scenarioCalls : ScenarioFail(c)
RetryTimers == \E i \in DOMAIN timers : RetryTimerFires(i)
AudioFetchReturns == \E f \in audioFetches : AudioFetchOk(f)
AudioFetchFails == \E f \in audioFetches : AudioFetchFail(f)

Next ==
    \/ HandleRecordingStart
    \/ RecordingStops
    \/ TranscribeFails
    \/ TranscribeReturns
    \/ RespondFails
    \/ RespondReturns
    \/ AudioFetchReturns
    \/ AudioFetchFails
    \/ RequestScenario
    \/ ScenarioReturns
    \/ ScenarioFails
    \/ RetryTimers
    \/ Tick

Spec == Init /\ [][Next]_vars

\* every network call eventually returns, every timer that is due runs,
\* and time passes
NetworkReturns ==
    \/ TranscribeFails \/ TranscribeReturns
    \/ RespondFails \/ RespondReturns
    \/ ScenarioReturns \/ ScenarioFails
    \/ AudioFetchReturns \/ AudioFetchFails

\* the custom-scenario dialog with the scenario calls it makes
TypesSituation == \E text \in SituationInputs : TypeSituation(text)

CustomNext ==
    \/ ShowCustomScenarioModal
    \/ TypesSituation
    \/ CloseCustomModal
    \/ GenerateCustomScenario
    \/ ScenarioReturns
    \/ ScenarioFails
    \/ RetryTimers
    \/ Tick

CustomSpec == Init /\ [][CustomNext]_vars

\* the level, its restore at startup and its debounced write
SelectsLevel == \E level \in Levels : SelectLevel(level)

SessionNext ==
    \/ RestoreSession
    \/ SelectsLevel
    \/ SaveTimerFires
    \/ SessionTick

SessionSpec == SessionInit /\ [][SessionNext]_vars

\* the preload cache and its teardown.  URLs are numbered in the order of
\* their first use.  A call names no URL, the URL of the oldest or of the
\* newest entry, the lowest URL used before that is not cached, or the next
\* new URL.
PreloadUrls ==
    LET cached == { audioPreloadCache[i].url : i \in DOMAIN audioPreloadCache }
        gone == (1 .. seen) \ cached
    IN  { NoUrl, seen + 1 }
        \cup { audioPreloadCache[i].url :
                 i \in DOMAIN audioPreloadCache \cap { 1, Len(audioPreloadCache) } }
        \cup { u \in gone : \A v \in gone : u <= v }

PreloadsAudio ==
    \E url \in NoUrl .. MaxUrls : url \in PreloadUrls /\ PreloadAudio(url)

CacheNext ==
    \/ PreloadsAudio
    \/ Cleanup

CacheSpec == Init /\ [][CacheNext]_vars

\* the timers of the application and its teardown
TeardownNext ==
    \/ RestoreSession
    \/ SelectsLevel
    \/ SaveTimerFires
    \/ RequestScenario
    \/ ScenarioReturns
    \/ ScenarioFails
    \/ RetryTimers
    \/ Tick
    \/ Cleanup

TeardownSpec == Init /\ [][TeardownNext]_vars

\* the record button, the recorder and its callbacks
RecorderStops == \E size \in BlobSizes : OnStop(size)

RecorderNext ==
    \/ PressRecord
    \/ ReleaseRecord
    \/ InitOk
    \/ InitFails
    \/ OnStart
    \/ OnError
    \/ RecorderStops
    \/ VisibilityLost
    \/ TranscribeFails

RecorderSpec == Init /\ [][RecorderNext]_vars

\* the session's credential and the requests of the two API clients
LoggedIn == \E token \in Tokens : Login(token)

AuthNext ==
    \/ LoggedIn
    \/ Logout
    \/ TranscribeAudio
    \/ GetAiResponse
    \/ GenerateScenarioRequest
    \/ TranscribeAudioWithToken
    \/ GetAiResponseWithToken
    \/ GenerateScenarioWithToken

AuthSpec == Init /\ [][AuthNext]_vars

\* the dictionary search and the example dialogue
Searches == \E isEmpty \in BOOLEAN : HandleSearch(isEmpty)
SearchReturns == \E query \in searches : SearchOk(query)
SearchFails == \E query \in searches : SearchFail(query)

LookupNext ==
    \/ Searches
    \/ SearchReturns
    \/ SearchFails
    \/ ShowExampleDialog
    \/ ExampleOk
    \/ ExampleFail

LookupSpec == Init /\ [][LookupNext]_vars

FairSpec ==
    /\ Spec
    /\ WF_vars(NetworkReturns)
    /\ WF_vars(RetryTimers)
    /\ WF_vars(Tick)

\* ------------------------------------------------------------ properties
\* the entries of a log that are placeholders
IsPlaceholder(m) == m.content \in { ProcessingText, ThinkingText }
PlaceholderFree(log) == \A i \in DOMAIN log : ~IsPlaceholder(log[i])

\* position of the element with identity id in the container (0: absent)
IndexOf(els, id) ==
    IF \E i \in DOMAIN els : els[i].id = id
    THEN CHOOSE i \in DOMAIN els : els[i].id = id
    ELSE 0

\* the order of the events of one pipeline execution
PipelineOrder ==
    << "userPlaceholder", "transcribeCall", "transcribeReturn",
       "aiPlaceholder", "respondCall" >>
IsPrefix(s, t) == Len(s) <= Len(t) /\ s = SubSeq(t, 1, Len(s))

\* a pipeline execution passed its guard in the handler that ran last
PipelinePassedGuard ==
    last.op = "recordingStop" /\ last.outcome \in { "started", "placeholderFailed" }
\* a pipeline execution ended in the handler that ran last
PipelineExited ==
    \/ last.op = "pipelineEnd"
    \/ last.op = "recordingStop" /\ last.outcome = "placeholderFailed"

\* C1: at most one pipeline execution is in flight; isLoading is false
\* before an execution starts, true while it is in flight, and false after
\* it completes or fails.
C1_OnePipelineAtATime ==
    /\ Cardinality(pipelines) <= 1
    /\ pipelines # {} => isLoading
    /\ PipelinePassedGuard => ~last.busy
    /\ PipelineExited => ~isLoading

\* C2: a pipeline execution that set the busy flag has cleared it when it
\* exits, on every exit path, so that the next recording is accepted.
C2_BusyReleasedOnEveryExit == PipelineExited => ~isLoading

\* C3: after a successful exchange the message log is the log before the
\* call plus one user message (the transcript) and one partner message
\* (the response), and holds no placeholder.
C3_SuccessAddsTwoMessages ==
    (last.op = "pipelineEnd" /\ last.outcome = "responded") =>
        /\ messages = last.pre \o
               << [ role |-> "user", content |-> last.userText ],
                  [ role |-> "ai", content |-> last.response ] >>
        /\ PlaceholderFree(messages)

\* C4: after an empty, whitespace-only or missing transcription the respond
\* call was never made, no partner placeholder was inserted, the message
\* log and the conversation are as before the call, and the flag is free.
C4_EmptyTranscriptionRollsBack ==
    (last.op = "pipelineEnd" /\ last.outcome = "emptyTranscription") =>
        /\ last.aiEl = NoObject
        /\ IsPrefix(last.trace, << "userPlaceholder", "transcribeCall" >>)
        /\ messages = last.pre
        /\ chat = last.preChat
        /\ ~isLoading

\* C5: after a failed respond call the user message is committed, the
\* partner placeholder is gone from the conversation and from the message
\* log, one notice was shown and the flag is free.
C5_RespondFailureRemovesPlaceholder ==
    (last.op = "pipelineEnd" /\ last.outcome = "respondFailed") =>
        /\ \E i \in DOMAIN messages :
               messages[i] = [ role |-> "user", content |-> last.userText ]
        /\ IndexOf(chat, last.userEl) # 0
        /\ IndexOf(chat, last.aiEl) = 0
        /\ \A i \in DOMAIN messages : messages[i].content # ThinkingText
        /\ Len(last.toasts) = 1
        /\ ~isLoading

\* the step is a run of handleRecordingStop
StopStep == isRecording /\ ~isRecording'

\* C6: a recording below 1000 bytes never reaches the pipeline (no
\* transcribe call, flag and log untouched, one notice); a recording of
\* 1000 bytes or more is handed to the pipeline.
C6_ShortRecordingNeverReachesPipeline ==
    [][ StopStep =>
          IF last'.size < MinBlobSize
          THEN /\ pipelines' = pipelines
               /\ isLoading' = isLoading
               /\ messages' = messages
               /\ chat' = chat
               /\ rejected' = rejected
               /\ Len(last'.toasts) = 1
               /\ ~last'.handed
          ELSE /\ last'.handed
               /\ (~isLoading /\ chatContainer) =>
                     \E p \in pipelines' :
                         p.blob = last'.blob /\ p.phase = "transcribe"
      ]_vars
C6_Witness ==
    last.op = "recordingStop" /\ last.size = 999 /\ last.outcome = "tooShort"

\* C7: a recording that arrives while the busy flag is held is rejected and
\* never queued: no transcribe call then or later, no placeholder, the log
\* unchanged, and the flag still held.
C7_BusyRecordingRejected ==
    [][ /\ (StopStep /\ isLoading /\ last'.size >= MinBlobSize) =>
              /\ isLoading'
              /\ pipelines' = pipelines
              /\ messages' = messages
              /\ chat' = chat
              /\ last'.blob \in rejected'
        /\ \A p \in pipelines' : p.blob \notin rejected'
      ]_vars
C7_Witness ==
    /\ last.op = "recordingStop" /\ last.outcome = "rejected"
    /\ last.blob \in rejected /\ isLoading
    /\ pipelines # {}

\* C8: within one execution the events come in the order user placeholder,
\* transcribe call, transcribe return, partner placeholder, respond call;
\* the respond call is made only after a non-empty transcript, and the
\* partner placeholder stands after the user element.
C8_PipelineOrder ==
    /\ \A p \in pipelines :
          /\ IsPrefix(p.trace, PipelineOrder)
          /\ IndexOf(chat, p.userEl) # 0
          /\ p.phase = "transcribe" =>
                /\ p.aiEl = NoObject
                /\ \A i \in DOMAIN chat :
                      chat[i].role = "ai" => chat[i].id < p.userEl
          /\ p.phase = "respond" =>
                /\ Trim(p.userText) # ""
                /\ IndexOf(chat, p.userEl) < IndexOf(chat, p.aiEl)
                /\ chat[IndexOf(chat, p.userEl)].text = p.userText
    /\ last.op = "pipelineEnd" =>
          /\ IsPrefix(last.trace, PipelineOrder)
          /\ Len(last.trace) = Len(PipelineOrder) => Trim(last.userText) # ""
C8_Witness ==
    \E p \in pipelines : p.phase = "respond" /\ p.trace = PipelineOrder

\* the delays of the retries of one request, in order
RetryDelays == [ k \in 1..maxRetries |-> k * RetryBaseMs ]

\* C9: a request whose calls all fail is retried exactly 3 times, the k-th
\* retry k * 1000 ms after the failure before it; after the last retry
\* fails the failure is reported and nothing more is scheduled.
C9_ThreeRetriesWithBackoff ==
    [][ /\ \A c \in scenarioCalls \ scenarioCalls' :
              last'.outcome # "generated" =>
                 IF c.retryCount < maxRetries
                 THEN /\ timers' = Append(timers,
                            [ type |-> c.type, retryCount |-> c.retryCount + 1,
                              delay |-> (c.retryCount + 1) * RetryBaseMs,
                              remaining |-> (c.retryCount + 1) * RetryBaseMs,
                              waited |-> SubSeq(RetryDelays, 1, c.retryCount + 1) ])
                      /\ scenarioText' = scenarioText
                      /\ last'.toasts = << >>
                 ELSE /\ c.retryCount = maxRetries
                      /\ c.waited = RetryDelays
                      /\ timers' = timers
                      /\ scenarioText' = ScenarioFailedText
                      /\ Len(last'.toasts) = 1
        /\ \A i \in DOMAIN timers :
              Len(timers') < Len(timers) /\ timers' = RemoveAt(timers, i) =>
                 /\ timers[i].remaining = 0
                 /\ ~isLoading =>
                       \E c \in scenarioCalls' :
                          /\ scenarioCalls' = scenarioCalls \cup { c }
                          /\ c \notin scenarioCalls
                          /\ c.type = timers[i].type
                          /\ c.retryCount = timers[i].retryCount
                          /\ c.waited = timers[i].waited
      ]_vars
C9_Witness ==
    /\ last.op = "scenarioEnd" /\ last.outcome = "exhausted"
    /\ last.waited = RetryDelays
    /\ requests = 1 /\ recordings = 0
    /\ timers = << >> /\ scenarioCalls = {}

\* C10: a scenario request that passed the guard ends with the scenario
\* text or the failure message shown: the loading skeleton never stays.
C10_ScenarioLoadingEnds ==
    (scenarioText = LoadingSkeleton) ~> (scenarioText # LoadingSkeleton)

\* the step is a call of generateScenario: by a click, or by a retry timer
ScenarioCallStep == requests' # requests \/ Len(timers') < Len(timers)
\* the step is the end of a scenario-generation call
ScenarioEndStep == scenarioCalls \ scenarioCalls' # {}

\* C11: a generateScenario call made while isLoading is held issues no
\* network call and changes nothing; the message log is cleared and
\* currentScenario replaced exactly when a generation call succeeds, a
\* failed attempt leaves both as they are.
C11_ScenarioGuardAndClear ==
    [][ /\ (ScenarioCallStep /\ isLoading) =>
              /\ scenarioCalls' = scenarioCalls
              /\ UNCHANGED << isLoading, scenarioText, currentScenario,
                              messages, chat, pipelines >>
        /\ (ScenarioEndStep /\ last'.outcome = "generated") =>
              /\ messages' = << >>
              /\ chat' = << >>
              /\ currentScenario' \in ScenarioTexts
              /\ scenarioText' = currentScenario'
        /\ (ScenarioEndStep /\ last'.outcome # "generated") =>
              UNCHANGED << currentScenario, messages, chat >>
        /\ (currentScenario' # currentScenario \/ Len(messages') < Len(messages)) =>
              ScenarioEndStep /\ last'.outcome = "generated"
      ]_vars
C11_Witness ==
    /\ last.op = "scenarioEnd" /\ last.outcome = "generated"
    /\ last.pre # << >>
    /\ messages = << >> /\ currentScenario \in ScenarioTexts

\* C20: between the start and the end of a pipeline execution the scenario
\* is not replaced and the message log is not cleared: the log the
\* execution started with, and its placeholder, are still there.
C20_NoStaleResult ==
    /\ \A p \in pipelines :
          /\ currentScenario = p.scenario
          /\ IsPrefix(PushMessage(p.pre, "user", ProcessingText), messages)
    /\ last.op = "pipelineEnd" =>
          /\ currentScenario = last.scenario
          /\ IsPrefix(PushMessage(last.pre, "user", ProcessingText), messages)
C20_Witness ==
    /\ \E p \in pipelines : p.phase = "respond" /\ p.scenario \in ScenarioTexts
    /\ last.op = "retryTimer" /\ last.busy

\* C19: the Audio element that receives the partner's audio is the one made
\* in the recording-stop handler of the same recording; its src is assigned
\* only after the respond call of that recording has returned; a recording
\* that stops while an execution is in flight does not change the element
\* that execution uses.
C19_HandleOfOwnRecording ==
    /\ \A p \in pipelines :
          /\ [ blob |-> p.blob, audio |-> p.audio ] \in handles
          /\ \A s \in audioSrc : s.audio # p.audio
          /\ \A f \in audioFetches : f.audio # p.audio
    /\ \A f \in audioFetches : [ blob |-> f.blob, audio |-> f.audio ] \in handles
    /\ \A s \in audioSrc : [ blob |-> s.blob, audio |-> s.audio ] \in handles
    /\ \A h1, h2 \in handles : h1.blob = h2.blob => h1.audio = h2.audio
C19_Witness ==
    /\ last.op = "audioReady"
    /\ \E b \in rejected : b > last.blob
    /\ [ blob |-> last.blob, audio |-> last.audio ] \in audioSrc

\* C12: no custom scenario request is issued whose situation is missing or,
\* trimmed, shorter than three characters; this holds for every attempt,
\* the retried ones included.
C12_CustomRequestHasSituation ==
    \A c \in scenarioCalls :
        c.type = "custom" =>
            /\ c.situation # NoSituation
            /\ Len(Trim(c.situation)) >= MinSituationLength

\* C13: at startup the saved level is restored exactly when a saved record
\* exists and is less than 24 hours old; otherwise the level stays the
\* default A2.  A record of 23 hours restores, one of 24 or 25 hours does not.
C13_RestoreWithinDay ==
    last.op = "restoreSession" =>
        /\ \A rec \in last.saved :
              currentLevel = (IF rec.age < 24 * HourMs
                              THEN (IF rec.currentLevel = "" THEN "A2"
                                    ELSE rec.currentLevel)
                              ELSE "A2")
        /\ last.saved = {} => currentLevel = "A2"
C13_Witness ==
    /\ last.op = "restoreSession"
    /\ \E rec \in last.saved : rec.age = 23 * HourMs /\ rec.currentLevel = "B1"
    /\ currentLevel = "B1"

\* the step is a call of selectLevel / a write of the record
SelectStep == sessionLog'.calls # sessionLog.calls
WriteStep == sessionLog'.writes # sessionLog.writes

\* C14: selectLevel sets the level at once and writes nothing itself; the
\* calls of a burst, each less than 1000 ms after the one before, are
\* followed by exactly one write, made once 1000 ms have passed without a
\* call, that stores the last level selected with the time of the write.
C14_OneWritePerBurst ==
    [][ /\ SelectStep =>
              /\ currentLevel' = sessionLog'.burst[Len(sessionLog'.burst)]
              /\ storage' = storage
              /\ sessionLog'.writes = sessionLog.writes
        /\ WriteStep =>
              /\ sessionLog.sinceCall >= 1000
              /\ sessionLog.burst # << >>
              /\ storage' = { [ currentLevel |->
                                   sessionLog.burst[Len(sessionLog.burst)],
                               age |-> 0 ] }
        /\ sessionLog.burst # << >> =>
              /\ Len(saveTimer) = 1
              /\ saveTimer[1] = 1000 - sessionLog.sinceCall
        /\ sessionLog.burst = << >> => saveTimer = << >>
      ]_vars
C14_Witness ==
    /\ last.op = "saveSession"
    /\ Len(last.burst) = 3
    /\ sessionLog.writes = 1
    /\ last.burst[1] # last.burst[3]
    /\ \E rec \in storage : rec.currentLevel = last.burst[3] /\ rec.age = 0

\* C15: after any sequence of preloadAudio calls the cache holds at most
\* 10 entries and no two entries for the same URL.
C15_CacheBounded ==
    /\ Len(audioPreloadCache) <= 10
    /\ \A i, j \in DOMAIN audioPreloadCache :
          audioPreloadCache[i].url = audioPreloadCache[j].url => i = j
C15_Witness ==
    /\ last.op = "preloadAudio" /\ last.outcome = "inserted"
    /\ Len(last.pre) = 10 /\ Len(audioPreloadCache) = 10

\* C16: inserting a new URL into a full cache evicts exactly one entry, the
\* one inserted first, and releases the resource of that entry at that
\* moment.
C16_EvictionReleases ==
    (last.op = "preloadAudio" /\ last.outcome = "inserted" /\ Len(last.pre) = 10) =>
        /\ Len(last.evicted) = 1
        /\ last.evicted[1] = last.pre[1]
        /\ Len(audioPreloadCache) = 10
        /\ \A i \in 2 .. 10 : audioPreloadCache[i - 1] = last.pre[i]
        /\ last.evicted[1].audio \notin loaded

\* C17: after cleanup the cache is empty and every Audio element it held
\* has been released.
C17_CleanupDrainsCache ==
    last.op = "cleanup" =>
        /\ audioPreloadCache = << >>
        /\ \A i \in DOMAIN last.pre : last.pre[i].audio \notin loaded
C17_Witness ==
    /\ last.op = "cleanup"
    /\ Len(last.pre) = 10
    /\ \A i \in DOMAIN last.pre : last.pre[i].audio \in last.held

\* C18: after cleanup no retry timer that was scheduled and no pending
\* debounced write runs.
C18_NoTimerAfterTeardown ==
    tornDown => last.op \notin { "retryTimer", "saveSession" }

\* C21: between two successful scenario generations the message log only
\* grows at its end: a step leaves it as it is or appends entries, and the
\* only step that removes entries is the clear of a successful generation.
C21_LogAppendOnly ==
    [][ \/ IsPrefix(messages, messages')
        \/ /\ ScenarioEndStep
           /\ last'.outcome = "generated"
           /\ messages' = << >>
      ]_vars
C21_Witness ==
    /\ last.op = "pipelineEnd" /\ last.outcome = "responded"
    /\ last.pre # << >>
    /\ IsPrefix(last.pre, messages)
    /\ Len(messages) > Len(last.pre)

\* C22: the history sent with a respond call holds committed messages only:
\* no placeholder entry and no copy of the current user turn.
C22_HistoryCommittedOnly ==
    \A p \in pipelines :
        p.phase = "respond" =>
            /\ PlaceholderFree(p.history)
            /\ \A i \in DOMAIN p.history :
                  Len(p.pre) < i =>
                     ~(p.history[i].role = "user"
                       /\ p.history[i].content = p.userText)

\* C23: when the transcribe call itself fails, the respond call is never
\* made, no partner placeholder is inserted, the user placeholder is rolled
\* back so that the message log is what it was before the call, exactly one
\* notice is shown and the busy flag is released.
C23_TranscribeFailureRollsBack ==
    (last.op = "pipelineEnd" /\ last.outcome = "transcribeFailed") =>
        /\ \A i \in DOMAIN last.trace :
              last.trace[i] \notin { "aiPlaceholder", "respondCall" }
        /\ last.aiEl = NoObject
        /\ chat = last.preChat
        /\ messages = last.pre
        /\ Len(last.toasts) = 1
        /\ ~isLoading

\* how often a call occurs in the trace of an execution
CallsIn(trace, call) == Cardinality({ i \in DOMAIN trace : trace[i] = call })

\* C24: transcribe and respond calls are never retried: an execution makes
\* at most one call of each kind, a transcribe call is made only by the
\* handler of a recording that stops, for that recording, and a respond
\* call only by the execution whose transcribe call has just returned.
C24_NoAutomaticRetry ==
    [][ /\ \A p \in pipelines' :
              /\ CallsIn(p.trace, "transcribeCall") <= 1
              /\ CallsIn(p.trace, "respondCall") <= 1
        /\ \A p \in pipelines' \ pipelines :
              IF p.phase = "transcribe"
              THEN /\ StopStep
                   /\ p.blob = recordings
                   /\ \A q \in pipelines : q.blob # p.blob
              ELSE \E q \in pipelines \ pipelines' :
                      q.blob = p.blob /\ q.phase = "transcribe"
      ]_vars
C24_Witness ==
    /\ last.op = "pipelineEnd" /\ last.outcome = "respondFailed"
    /\ CallsIn(last.trace, "transcribeCall") = 1
    /\ CallsIn(last.trace, "respondCall") = 1
    /\ pipelines = {}

\* C25: an error of the capture, a denied permission included, leaves no
\* recording going, shows one notice, starts no pipeline execution and
\* leaves the message log and the busy flag as they were.
C25_CaptureErrorHandledLocally ==
    last.op \in { "recordingError", "initFailed" } =>
        /\ ~isRecording
        /\ Len(last.toasts) = 1
        /\ pipelines = last.prePipelines
        /\ messages = last.preMessages
        /\ isLoading = last.busy
C25_Witness ==
    /\ last.op = "recordingError"
    /\ last.wasRecording
    /\ last.busy
    /\ ~isRecording /\ isLoading

\* C28: the recorder's start is requested only from the idle state: never
\* while a recording is active, while an earlier start is still pending,
\* or on a recorder whose initialisation has not succeeded.
C28_StartOnlyFromIdle ==
    (last.op \in { "press", "initDone", "initFailed" } /\ last.started) =>
        /\ last.recorderAt = "ready"
        /\ last.captureAt = "idle"

\* C29: when the page is hidden while a recording is active the recorder is
\* stopped: once the event is handled the recording is no longer active.
C29_HiddenPageStopsRecording ==
    (last.op = "visibilityLost" /\ last.wasActive) => capture # "recording"
C29_Witness ==
    /\ last.op = "visibilityLost" /\ last.wasActive
    /\ pressed /\ isRecording
    /\ capture = "finalizing"

\* C30: a recording is active only while the record button is held; a
\* release that arrives while the start is still pending leaves no
\* recording to start for that press.
C30_RecordingOnlyWhileHeld ==
    capture = "recording" => pressed

\* C27: a failure of scenario generation is shown only when the retries
\* are used up: a failed call that still has a retry to come shows no
\* notice and leaves the scenario text alone; the failure message and its
\* one notice appear in the step in which the last attempt fails, and in no
\* other step.
C27_FailureOnlyAfterExhaustion ==
    [][ /\ \A c \in scenarioCalls \ scenarioCalls' :
              last'.outcome # "generated" =>
                 IF c.retryCount < maxRetries
                 THEN /\ last'.toasts = << >>
                      /\ scenarioText' = scenarioText
                      /\ Len(timers') = Len(timers) + 1
                 ELSE /\ scenarioText' = ScenarioFailedText
                      /\ Len(last'.toasts) = 1
                      /\ timers' = timers
        /\ (scenarioText' = ScenarioFailedText
            /\ scenarioText # ScenarioFailedText) =>
              \E c \in scenarioCalls \ scenarioCalls' :
                  /\ c.retryCount = maxRetries
                  /\ last'.outcome = "exhausted"
      ]_vars
C27_Witness ==
    /\ last.op = "scenarioEnd" /\ last.outcome = "retryScheduled"
    /\ last.retryCount = maxRetries - 1
    /\ last.toasts = << >>
    /\ scenarioText = LoadingSkeleton
    /\ timers # << >>

\* the values of the Authorization header of a request
BearerOf(request) ==
    { h[2] : h \in { x \in request.headers : x[1] = "Authorization" } }

\* C26: a transcribe, respond or scenario request sent while there is a
\* credential carries that credential as its bearer token; a request sent
\* while there is none is sent without one.
C26_RequestsCarryCredential ==
    \A i \in DOMAIN wire :
        BearerOf(wire[i]) =
            { "Bearer " \o wire[i].tokenAt[k] : k \in DOMAIN wire[i].tokenAt }

\* the retries of scenario generation that are waiting or in flight
PendingRetries ==
    Len(timers) + Cardinality({ c \in scenarioCalls : c.retryCount > 0 })

\* C31: at most one retry of scenario generation is pending at a time, and
\* when a scenario generation has succeeded no retry timer of an earlier
\* request is left that could fire and replace the scenario or clear the
\* message log.
C31_SingleRetryChain ==
    /\ PendingRetries <= 1
    /\ (last.op = "scenarioEnd" /\ last.outcome = "generated") =>
          timers = << >>

\* the step is the run of restoreSession at startup
RestoreStep == restored' /\ ~restored

C33_HitLeavesCacheAlone ==
    /\ \A i, j \in DOMAIN audioPreloadCache :
          i < j => audioPreloadCache[i].audio < audioPreloadCache[j].audio
    /\ last.op = "preloadAudio" =>
          /\ (last.url = 0 \/ \E i \in DOMAIN last.pre :
                                  last.pre[i].url = last.url) =>
                audioPreloadCache = last.pre
          /\ \A k \in DOMAIN last.evicted :
                \A i \in DOMAIN last.pre :
                    last.evicted[k].audio <= last.pre[i].audio
C33_Witness ==
    /\ last.op = "preloadAudio" /\ last.outcome = "skipped"
    /\ Len(audioPreloadCache) = 10
    /\ last.url = audioPreloadCache[1].url
    /\ seen > 10

\* C34: the search results shown are never replaced by those of an older
\* query: a response that arrives after the response to a newer query does
\* not overwrite it, and when no search is in flight the results shown are
\* those of the query issued last.
C34_NewestQueryShown ==
    /\ (last.op = "searchEnd" /\ last.shown.kind \in { "results", "error" }) =>
          last.shown.query <= searchResults.query
    /\ (searches = {} /\ searchResults.kind \in { "results", "error" }) =>
          \/ searchResults.query = queries
          \/ last.op = "searchEnd" /\ last.shown.kind = "cleared"

\* C35: at most one example-dialogue request is in flight; a call made
\* while the button is disabled issues no request; the button is enabled
\* again after the request has ended, with the dialogue or with a failure.
C35_OneExampleRequest ==
    /\ exampleCalls <= 1
    /\ exampleDisabled <=> exampleCalls = 1
    /\ (last.op = "showExampleDialog" /\ last.disabled) =>
          exampleCalls = last.inFlight
    /\ last.op = "exampleEnd" => ~exampleDisabled /\ exampleCalls = 0
C35_Witness ==
    /\ last.op = "showExampleDialog" /\ ~last.disabled
    /\ exampleClicks = 3
    /\ exampleCalls = 1 /\ exampleDisabled

====
